---- MODULE Spec2Model ----
(***************************************************************************)
(* Model of idb-sideloader's IndexedCache: the asset-resolution engine     *)
(* (store lookup, network fallback, write-back), the scheduler/applier    *)
(* (unordered references applied on resolution, ordered references        *)
(* chained through the elements' load/error events) and the pruning of    *)
(* the store after a load pass.                                           *)
(*                                                                         *)
(* The repository holds two implementations of the class.  Both are       *)
(* modelled; cfg.variant says which one an instance is:                   *)
(*   "eager"  src/src/index.ts      one connection opened by init(), held *)
(*                                  in this.db, 200 ms open timeout       *)
(*   "lazy"   src/unnamed/part_001  createStore() in the constructor,     *)
(*                                  one transaction per store operation   *)
(*                                                                         *)
(* One action is one task of the JavaScript event loop: a public call, or *)
(* an event handler together with every promise reaction (microtask) it   *)
(* triggers.  IndexedDB requests are kept in a FIFO queue: transactions   *)
(* over the same object store run in the order of their creation, and a   *)
(* transaction stays alive until the callbacks of its request have run,   *)
(* so the execution of a request and its onsuccess/onerror handler form   *)
(* one step.                                                              *)
(*                                                                         *)
(* Three specifications: Spec, the load machinery; FairSpec, Spec with    *)
(* the event loop eventually running every timer, store request, fetch    *)
(* and element event that is due; ApiSpec, the client's deleteKey, clear  *)
(* and prune calls against a populated store.                             *)
(*                                                                         *)
(* Record constructors list their fields in TLC's canonical field order,  *)
(* so that values shared between TLC's workers are never re-sorted.       *)
(***************************************************************************)
EXTENDS Integers, Sequences, FiniteSets, TLC

\* ---------------------------------------------------------------- bounds
NumEls == 2
MaxPasses == 2
MaxTicks == 1
MaxInits == 1
MaxResolves == 3
MaxCalls == 1

\* ------------------------------------------------------------- constants
MsPerMinute == 60000

Els == 1..NumEls
Passes == 1..MaxPasses
Inits == 1..MaxInits
CallIds == 1..MaxCalls

NoAttr == ""
NoBlob == "none"
NoExpiry == -1
NoD == <<0, 0>>

\* data-src of element e, and the body the network serves for that locator.
SrcOf(e) == <<"s1", "s2", "s3", "s4">>[e]
NetBlob(e) == <<"n1", "n2", "n3", "n4">>[e]

\* DBObj["data"]: the stored entry; NoEntry is `undefined` / `{}`.
NoEntry == [key |-> NoAttr, hash |-> NoAttr, expiry |-> NoExpiry, blob |-> NoBlob]

VARIABLES
    cfg,      \* this.opt plus the implementation variant
    page,     \* the document: per element its tag and data-* attributes
    now,      \* the wall clock (ms), read by new Date()
    db,       \* eager: this.db is set
    dbp,      \* lazy: the promise of createStore(): "pending" | "ok" | "err"
    inits,    \* eager: the init() calls: promise state, open request, timer
    store,    \* the object store: key -> entry
    txq,      \* requests to the object store, in transaction-creation order
    objs,     \* per load pass: the elements it built descriptors for
    builtAt,  \* per load pass: the time its descriptors were built
    res,      \* per descriptor: the state of its _getObject call
    lpc,      \* per load pass: the state of the promise load() returned
    el,       \* per element: src, data-indexed, pending load, onload/onerror,
              \* and history: how often and by which descriptor it was applied
    ev,       \* history: the store request or fetch that ended in the last step
    calls     \* the deleteKey / clear / prune calls of the client: operation,
              \* argument, the state of the promise or request, and history:
              \* the store content when the call was made

vars == <<cfg, page, now, db, dbp, inits, store, txq, objs, builtAt, res, lpc, el, ev, calls>>

\* ------------------------------------------------------------ input sets
Variants == {"eager", "lazy"}

\* The keys a stored entry can have: the data-key "a", the locators (the
\* key of an element without data-key) and "z", the key of an asset that is
\* on no element of this page.
Keys == {"a", "z"} \cup {SrcOf(e) : e \in Els}
KeyOrder == <<"a", "s1", "s2", "s3", "s4", "z">>

\* Entries left under key k by an earlier session: the tag is the page's
\* data-hash "h1" or an older "h0"; the expiry is null or the start of the
\* run (the entry is valid until the clock moves).
OldEntries(k) ==
    { [key |-> k, hash |-> "h1", expiry |-> NoExpiry, blob |-> "old"],
      [key |-> k, hash |-> "h1", expiry |-> 0, blob |-> "old"],
      [key |-> k, hash |-> "h0", expiry |-> 0, blob |-> "old"] }

\* The elements the scan can find.  The eager variant selects script, img
\* and link, and only a script without async/defer is ordered; the lazy
\* variant selects img and link, ordered unless async/defer/lazy is set.
\* The first element carries data-key "a"; data-hash is "h1" or absent.  A
\* "DIV" is an element the scan does not select: its tag is not in opt.tags.
Elements(v, e) ==
    { [tag |-> t, deferred |-> d, dkey |-> k, dhash |-> h, dexp |-> x] :
        t \in IF v = "eager" THEN {"SCRIPT", "IMG", "DIV"} ELSE {"IMG", "DIV"},
        d \in IF v = "eager" THEN {FALSE} ELSE BOOLEAN,
        k \in IF e = 1 THEN {"a"} ELSE {"a", NoAttr},
        h \in {"h1", NoAttr},
        x \in IF e = 1 THEN {NoAttr, "1"} ELSE {NoAttr} }

Configs ==
    { [expiry |-> x, variant |-> v, prune |-> pr, skip |-> sk] :
        v \in Variants, pr \in BOOLEAN, sk \in BOOLEAN, x \in {NoExpiry, 0, 2} }

\* The runs explored: every variant, every ordered/unordered page and every
\* state of the entry under "a", with the options and the remaining
\* attributes at their usual values or with one of them changed: prune on,
\* skip on, a default expiry of null or of 0, an expiry override, a second
\* element with the first one's key (under the same tag or, without
\* data-hash, under another), an element without data-hash, a page without
\* any element the scan selects.
Changes(c, pg, st) ==
      (IF c.prune THEN 1 ELSE 0)
    + (IF c.skip THEN 1 ELSE 0)
    + (IF c.expiry # 2 THEN 1 ELSE 0)
    + (IF pg[1].dexp # NoAttr THEN 1 ELSE 0)
    + (IF \E e \in Els : e > 1 /\ pg[e].dkey # NoAttr THEN 1 ELSE 0)
    + (IF \E e \in Els : pg[e].dhash = NoAttr /\ ~(e > 1 /\ pg[e].dkey # NoAttr)
       THEN 1 ELSE 0)
    + (IF \E e \in Els : pg[e].tag = "DIV" THEN 1 ELSE 0)

Explored(c, pg, st) ==
    /\ Changes(c, pg, st) <= 1
    /\ (st["z"] # NoEntry) = c.prune
    /\ (\E e \in Els : pg[e].tag = "DIV") => (\A e \in Els : pg[e].tag = "DIV")

\* ------------------------------------------------------- pure functions
\* parseInt() of the data-expiry strings used on the page.
ParseInt(s) == CASE s = "1" -> 1 [] s = "0" -> 0 [] OTHER -> 0

\* obj.isAsync of _setupElements.
\* Variant: every reference is taken for an ordered one.
IsAsyncNever(v, elm) == FALSE

IsAsync(v, elm) ==
    IF v = "eager"
    THEN elm.tag # "SCRIPT" \/ elm.deferred
    ELSE elm.deferred

\* `exp = el.dataset.expiry || this.opt.expiry; if (exp) obj.expiry = ...`
ComputeExpiry(attr, dflt, t) ==
    IF attr # NoAttr
    THEN t + ParseInt(attr) * MsPerMinute
    ELSE IF dflt # NoExpiry /\ dflt # 0 THEN t + dflt * MsPerMinute ELSE NoExpiry

\* Variant: the cache key is always the locator.
BuildObjSrcKey(c, elm, e, t) ==
    [ key     |-> SrcOf(e),
      hash    |-> IF elm.dhash # NoAttr THEN elm.dhash ELSE SrcOf(e),
      expiry  |-> ComputeExpiry(elm.dexp, c.expiry, t),
      src     |-> SrcOf(e),
      isAsync |-> IsAsync(c.variant, elm) ]

\* The descriptor _setupElements builds for element e at time t.
BuildObj(c, elm, e, t) ==
    [ key     |-> IF elm.dkey # NoAttr THEN elm.dkey ELSE SrcOf(e),
      hash    |-> IF elm.dhash # NoAttr THEN elm.dhash ELSE SrcOf(e),
      expiry  |-> ComputeExpiry(elm.dexp, c.expiry, t),
      src     |-> SrcOf(e),
      isAsync |-> IsAsync(c.variant, elm) ]

Obj(p, e) == BuildObj(cfg, page[e], e, builtAt[p])

\* Variant: an entry already counts as expired at the instant of its expiry.
GetDBblobStrict(v, obj, data, t) ==
    IF v = "lazy" /\ data.key = NoAttr THEN "miss"
    ELSE IF data = NoEntry \/ (obj.hash # NoAttr /\ data.hash # obj.hash) THEN "miss"
    ELSE IF data.expiry # NoExpiry /\ t >= data.expiry THEN "expired"
    ELSE "hit"

\* Variant: the stored hash is not compared with the descriptor's.
GetDBblobAnyHash(v, obj, data, t) ==
    IF v = "lazy" /\ data.key = NoAttr THEN "miss"
    ELSE IF data = NoEntry THEN "miss"
    ELSE IF data.expiry # NoExpiry /\ t > data.expiry THEN "expired"
    ELSE "hit"

\* Variant: an entry under another hash is treated as an expired one.
GetDBblobMismatchExpires(v, obj, data, t) ==
    IF v = "lazy" /\ data.key = NoAttr THEN "miss"
    ELSE IF data = NoEntry THEN "miss"
    ELSE IF obj.hash # NoAttr /\ data.hash # obj.hash THEN "expired"
    ELSE IF data.expiry # NoExpiry /\ t > data.expiry THEN "expired"
    ELSE "hit"

\* The decision of _getDBblob on the value `data` read at time t:
\* "miss" (absent, or the hash changed), "expired" (also deletes), "hit".
GetDBblob(v, obj, data, t) ==
    IF v = "lazy" /\ data.key = NoAttr THEN "miss"
    ELSE IF data = NoEntry \/ (obj.hash # NoAttr /\ data.hash # obj.hash) THEN "miss"
    ELSE IF data.expiry # NoExpiry /\ t > data.expiry THEN "expired"
    ELSE "hit"

\* Variant: the written entry never expires.
FetchDataNoExpiry(obj, blob) ==
    [key |-> obj.key, hash |-> obj.hash, expiry |-> NoExpiry, blob |-> blob]

\* The entry _fetchObject writes for a descriptor and a fetched body.
FetchData(obj, blob) ==
    [key |-> obj.key, hash |-> obj.hash, expiry |-> obj.expiry, blob |-> blob]

\* Variant: a failed resolve yields an empty value.
FailDataEmpty(obj) == NoEntry

\* The dummy data of _getObject when everything failed.
FailData(obj) ==
    [key |-> obj.key, hash |-> obj.hash, expiry |-> obj.expiry, blob |-> NoBlob]

\* Whether applyElement's switch assigns the URL for this tag.
AssignsUrl(v, tag) ==
    IF v = "eager" THEN tag \in {"SCRIPT", "IMG", "LINK"} ELSE tag \in {"IMG", "LINK"}

\* Variant: the element is marked data-indexed even without a blob.
ApplyElementMarksAlways(E, p, e, blob) ==
    IF blob = NoBlob THEN [E EXCEPT ![e].indexed = TRUE]
    ELSE [E EXCEPT ![e].src = blob, ![e].indexed = TRUE, ![e].loading = TRUE,
                   ![e].by = <<p, e>>, ![e].n = @ + 1]

\* _applyElement / applyElement: no blob, no change; else the object URL of
\* the blob becomes the source (which starts a load) and the element is
\* marked data-indexed.
ApplyElement(E, p, e, blob) ==
    IF blob = NoBlob THEN E
    ELSE IF AssignsUrl(cfg.variant, page[e].tag)
         THEN [E EXCEPT ![e].src = blob, ![e].indexed = TRUE, ![e].loading = TRUE,
                        ![e].by = <<p, e>>, ![e].n = @ + 1]
         ELSE [E EXCEPT ![e].indexed = TRUE]

\* The chaining loop of _applyElements: each element but the last gets an
\* onload = onerror handler that applies the next descriptor of the list.
RECURSIVE SetHandlers(_, _, _, _)
SetHandlers(E, p, list, n) ==
    IF n >= Len(list) THEN E
    ELSE SetHandlers([E EXCEPT ![list[n]].onload = <<p, list[n + 1]>>], p, list, n + 1)

\* Variant: the chain is started at its last element.
ChainStartLast(list) == list[Len(list)]

\* The element _applyElements applies itself, to start the chain.
ChainStart(list) == list[1]

\* Variant: the ordered descriptors are taken in reverse document order.
OrderedOfReversed(p) ==
    LET s == SelectSeq(objs[p], LAMBDA e : ~Obj(p, e).isAsync)
    IN  [i \in 1..Len(s) |-> s[Len(s) + 1 - i]]

\* objs.filter(ordered): the descriptors whose _getObject promise is pushed
\* to `promises`, in document order.
OrderedOf(p) == SelectSeq(objs[p], LAMBDA e : ~Obj(p, e).isAsync)

SeqToSet(s) == {s[i] : i \in 1..Len(s)}

\* this.opt.tags, in upper case as tagName gives them.
Tags(v) == IF v = "eager" THEN {"SCRIPT", "IMG", "LINK"} ELSE {"IMG", "LINK"}

\* The scan of load(): the elements of the selected tags without
\* data-indexed, in document order.
Unindexed(E) ==
    SelectSeq([e \in Els |-> e], LAMBDA e : page[e].tag \in Tags(cfg.variant) /\ ~E[e].indexed)

\* Variant: only the first descriptor is resolved when the pass starts.
DispatchedFirst(list) == IF list = <<>> THEN {} ELSE {list[1]}

\* objs.forEach of _setupElements: the descriptors whose _getObject is
\* called, all in the task of load() itself.
Dispatched(list) == SeqToSet(list)

\* ------------------------------------------------------------------ Init
\* pc: "none" | "get" | "fetch" | "put" | "lost" | "done"; data: what the
\* promise resolved with.  History: from ("store" | "net" | "fail"),
\* fetches and url (the calls of fetch() and the locator passed).
NoRes == [data |-> NoEntry, pc |-> "none", from |-> "", fetches |-> 0, url |-> NoAttr]

\* A call slot of the client's deleteKey / clear / prune calls.  st: "none",
\* "noop" (returned without a request), "pending", "keysdone" (eager prune:
\* the keys were enumerated and the deletes issued), "done", "failed".
\* History: snap, the store content when the call was made, and alone,
\* whether no request was pending then.
NoCall == [key |-> NoAttr, st |-> "none", op |-> "none", keys |-> {},
           snap |-> [k \in Keys |-> NoEntry], alone |-> FALSE]

\* The event register: what the environment delivered in the last step.
NoEv == [e |-> 0, p |-> 0, act |-> "", how |-> ""]
Ev(act, p, e, how) == [e |-> e, p |-> p, act |-> act, how |-> how]

Init ==
    /\ cfg \in Configs
    /\ page \in { pg \in [Els -> UNION {Elements(v, e) : v \in Variants, e \in Els}] :
                    \A e \in Els : pg[e] \in Elements(cfg.variant, e) }
    /\ \E sa \in {NoEntry} \cup OldEntries("a"),
          sz \in {NoEntry} \cup {x \in OldEntries("z") : x.expiry = NoExpiry} :
            store = [k \in Keys |-> IF k = "a" THEN sa ELSE IF k = "z" THEN sz ELSE NoEntry]
    /\ Explored(cfg, page, store)
    /\ now = 0
    /\ db = FALSE
    /\ dbp = IF cfg.variant = "lazy" THEN "pending" ELSE "none"
    /\ inits = [i \in Inits |-> [st |-> "none", req |-> "none", timer |-> "none"]]
    /\ txq = <<>>
    /\ objs = [p \in Passes |-> <<>>]
    /\ builtAt = [p \in Passes |-> 0]
    /\ res = [p \in Passes |-> [e \in Els |-> NoRes]]
    /\ lpc = [p \in Passes |-> "idle"]
    /\ el = [e \in Els |-> [src |-> NoBlob, indexed |-> FALSE, loading |-> FALSE,
                            by |-> NoD, n |-> 0, onload |-> NoD]]
    /\ ev = NoEv
    /\ calls = [c \in CallIds |-> NoCall]

\* --------------------------------------------------------------- helpers
Req(op, p, e, key, entry, keys) ==
    [e |-> e, key |-> key, p |-> p, op |-> op, keys |-> keys, entry |-> entry]

KeyOf(e) == BuildObj(cfg, page[e], e, 0).key

\* Variant: no stale key is deleted.
DeleteReqsNone(stale, p, c) == <<>>

\* The deleteKey() requests _prune issues for the enumerated keys that are
\* not in the key map, in the order getAllKeys() returns them; p and c name
\* the load pass or the client's call the prune belongs to.
DeleteReqs(stale, p, c) ==
    LET ks == SelectSeq(KeyOrder, LAMBDA k : k \in stale)
    IN  [i \in 1..Len(ks) |-> Req("del", p, c, ks[i], NoEntry, {})]

\* Variant: an expired entry is left in the store.
ExpiryDeleteNone(q, r, data) == q

\* this.deleteKey(data.key) of _getDBblob, not awaited: the request joins
\* the queue q.  Its op "delExpired" and the descriptor (r.p, r.e) it stems
\* from set it apart from the deleteKey requests of prune and of the client.
ExpiryDelete(q, r, data) == Append(q, Req("delExpired", r.p, r.e, data.key, NoEntry, {}))

\* Variant: load() prunes whether or not the scan found anything.
ContinuePrunesEmpty(p, list, q) ==
    IF cfg.prune
    THEN /\ txq' = Append(q, Req("keys", p, 0, NoAttr, NoEntry, {KeyOf(e) : e \in SeqToSet(list)}))
         /\ lpc' = [lpc EXCEPT ![p] = IF cfg.variant = "eager" THEN "done" ELSE "pruning"]
    ELSE /\ txq' = q
         /\ lpc' = [lpc EXCEPT ![p] = "done"]

\* load() after _setupElements returned objs: it returns at once when objs
\* is empty; else the optional prune of the keys found on the page.  The
\* eager variant does not await it; the lazy variant does.  q is the
\* request queue so far.
Continue(p, list, q) ==
    IF cfg.prune /\ list # <<>>
    THEN /\ txq' = Append(q, Req("keys", p, 0, NoAttr, NoEntry, {KeyOf(e) : e \in SeqToSet(list)}))
         /\ lpc' = [lpc EXCEPT ![p] = IF cfg.variant = "eager" THEN "done" ELSE "pruning"]
    ELSE /\ txq' = q
         /\ lpc' = [lpc EXCEPT ![p] = "done"]

\* _getObject of descriptor (p, e) resolves with `data`, and the promise
\* reactions that follow in the same task: an async descriptor is applied
\* at once; when the last non-async descriptor of the pass has settled,
\* allSettled resolves, _applyElements chains the handlers and applies the
\* first one, and load() continues.  q is the request queue so far.
Settle(R, p, e, data, from, q) ==
    LET r1  == [R EXCEPT ![p][e].pc = "done", ![p][e].data = data, ![p][e].from = from]
        out == OrderedOf(p)
    IN  /\ res' = r1
        /\ IF Obj(p, e).isAsync
           THEN /\ el' = ApplyElement(el, p, e, data.blob)
                /\ txq' = q
                /\ lpc' = lpc
           ELSE IF \A i \in 1..Len(out) : r1[p][out[i]].pc = "done"
                THEN /\ el' = ApplyElement(SetHandlers(el, p, out, 1), p, ChainStart(out),
                                           r1[p][ChainStart(out)].data.blob)
                     /\ Continue(p, objs[p], q)
                ELSE /\ UNCHANGED <<el, lpc>>
                     /\ txq' = q

\* _getDBblob rejected (or was never valid): _fetchObject calls fetch().
StartFetch(R, p, e) ==
    [R EXCEPT ![p][e].pc = "fetch", ![p][e].fetches = @ + 1, ![p][e].url = Obj(p, e).src]

\* The number of _getObject calls so far.
Resolves == Cardinality({d \in Passes \X Els : res[d[1]][d[2]].pc # "none"})

\* --------------------------------------------------------------- actions
\* No request to the store and no fetch is pending.
Idle ==
    /\ txq = <<>>
    /\ \A p \in Passes, e \in Els : res[p][e].pc \notin {"get", "fetch", "put"}

\* The clock advances by a minute.  Resolutions take milliseconds and the
\* expiries are whole minutes, so the minute changes between the bursts of
\* activity and not within one.
Tick ==
    /\ now < MaxTicks * MsPerMinute
    /\ Idle
    /\ now' = now + MsPerMinute
    /\ ev' = NoEv
    /\ UNCHANGED <<cfg, page, db, dbp, inits, store, txq, objs, builtAt, res, lpc, el, calls>>

\* eager: init() with this.db unset and skip off: _initDB opens the
\* database and arms the 200 ms timer.  (With this.db set or skip on,
\* init() returns without any effect.)
InitCall(i) ==
    /\ cfg.variant = "eager"
    /\ ~db /\ ~cfg.skip
    /\ inits[i].st = "none"
    /\ \A j \in Inits : j < i => inits[j].st # "none"
    /\ inits' = [inits EXCEPT ![i] = [st |-> "waiting", req |-> "pending", timer |-> "armed"]]
    /\ ev' = NoEv
    /\ UNCHANGED <<cfg, page, now, db, dbp, store, txq, objs, builtAt, res, lpc, el, calls>>

\* Variant: a success of the open request sets the handle even after the
\* promise of _initDB was rejected.
OpenSuccessLate(i) ==
    \/ /\ cfg.variant = "eager"
       /\ inits[i].req = "pending"
       /\ inits' = [inits EXCEPT ![i].req = "succeeded",
                                 ![i].st = IF @ = "waiting" THEN "ok" ELSE @]
       /\ db' = TRUE
       /\ UNCHANGED dbp
    \/ /\ cfg.variant = "lazy"
       /\ i = 1
       /\ dbp = "pending"
       /\ dbp' = "ok"
       /\ UNCHANGED <<db, inits>>

\* req.onsuccess.  eager: resolve(req.result), and if the promise was still
\* pending init's then() sets this.db.  lazy: the promise of createStore
\* resolves.
OpenSuccess(i) ==
    \/ /\ cfg.variant = "eager"
       /\ inits[i].req = "pending"
       /\ inits' = [inits EXCEPT ![i].req = "succeeded",
                                 ![i].st = IF @ = "waiting" THEN "ok" ELSE @]
       /\ db' = (db \/ inits[i].st = "waiting")
       /\ UNCHANGED dbp
    \/ /\ cfg.variant = "lazy"
       /\ i = 1
       /\ dbp = "pending"
       /\ dbp' = "ok"
       /\ UNCHANGED <<db, inits>>

\* req.onerror.  eager: reject(req.error), caught and logged by init().
OpenError(i) ==
    \/ /\ cfg.variant = "eager"
       /\ inits[i].req = "pending"
       /\ inits' = [inits EXCEPT ![i].req = "errored",
                                 ![i].st = IF @ = "waiting" THEN "failed" ELSE @]
       /\ UNCHANGED <<db, dbp>>
    \/ /\ cfg.variant = "lazy"
       /\ i = 1
       /\ dbp = "pending"
       /\ dbp' = "err"
       /\ UNCHANGED <<db, inits>>

\* eager: the timer of _initDB fires: if (!this.db) reject(...).
OpenTimeout(i) ==
    /\ cfg.variant = "eager"
    /\ inits[i].timer = "armed"
    /\ inits' = [inits EXCEPT ![i].timer = "fired",
                              ![i].st = IF @ = "waiting" /\ ~db THEN "failed" ELSE @]
    /\ UNCHANGED <<db, dbp>>

Open(i) ==
    /\ \/ OpenSuccess(i)
       \/ OpenError(i)
       \/ OpenTimeout(i)
    /\ ev' = NoEv
    /\ UNCHANGED <<cfg, page, now, store, txq, objs, builtAt, res, lpc, el, calls>>

\* load(): the scan, the descriptors, and either the native failover of
\* the eager variant without a database or one _getObject per descriptor.
LoadStart(p) ==
    /\ lpc[p] = "idle"
    /\ \A q \in Passes : q < p => lpc[q] # "idle"
    /\ LET list == Unindexed(el)
           out  == SelectSeq(list, LAMBDA e : ~IsAsync(cfg.variant, page[e]))
           gets == [i \in 1..Len(list) |-> Req("get", p, list[i], KeyOf(list[i]), NoEntry, {})]
       IN  /\ objs' = [objs EXCEPT ![p] = list]
           /\ builtAt' = [builtAt EXCEPT ![p] = now]
           /\ IF cfg.variant = "eager" /\ ~db
              THEN /\ IF list = <<>>
                      THEN /\ lpc' = [lpc EXCEPT ![p] = "rejected"]
                           /\ el' = el
                      ELSE /\ lpc' = [lpc EXCEPT ![p] = "done"]
                           /\ el' = ApplyElement(SetHandlers(el, p, list, 1), p, ChainStart(list), NoBlob)
                   /\ UNCHANGED <<res, txq>>
              ELSE /\ Resolves + Len(list) <= MaxResolves
                   /\ res' = [res EXCEPT ![p] = [e \in Els |->
                                IF e \in Dispatched(list) THEN [NoRes EXCEPT !.pc = "get"] ELSE NoRes]]
                   /\ el' = el
                   /\ IF out # <<>>
                      THEN /\ txq' = txq \o gets
                           /\ lpc' = [lpc EXCEPT ![p] = "resolving"]
                      ELSE Continue(p, list, txq \o gets)
    /\ ev' = NoEv
    /\ UNCHANGED <<cfg, page, now, db, dbp, inits, store, calls>>

\* Variant: a hit renews the stored expiry with the descriptor's.
StoreGetRenews(r, ok) ==
    LET obj  == Obj(r.p, r.e)
        data == store[r.key]
        verdict == IF ok THEN GetDBblob(cfg.variant, obj, data, now) ELSE "error"
    IN  IF verdict = "hit"
        THEN /\ store' = [store EXCEPT ![r.key].expiry = obj.expiry]
             /\ Settle(res, r.p, r.e, data, "store", Tail(txq))
        ELSE /\ store' = store
             /\ res' = StartFetch(res, r.p, r.e)
             /\ txq' = IF verdict = "expired"
                       THEN ExpiryDelete(Tail(txq), r, data)
                       ELSE Tail(txq)
             /\ UNCHANGED <<el, lpc>>

\* The object store runs the oldest request and its handler.
\* ok = FALSE is the request failing (onerror / transaction abort).
StoreGet(r, ok) ==
    LET obj  == Obj(r.p, r.e)
        data == store[r.key]
        verdict == IF ok THEN GetDBblob(cfg.variant, obj, data, now) ELSE "error"
    IN  /\ store' = store
        /\ IF verdict = "hit"
           THEN Settle(res, r.p, r.e, data, "store", Tail(txq))
           ELSE /\ res' = StartFetch(res, r.p, r.e)
                /\ txq' = IF verdict = "expired"
                          THEN ExpiryDelete(Tail(txq), r, data)
                          ELSE Tail(txq)
                /\ UNCHANGED <<el, lpc>>

\* Variant: a write replaces the payload and keeps the other fields of the
\* entry that was there.
StorePutMerges(r, ok) ==
    IF ok
    THEN /\ store' = [store EXCEPT ![r.key] =
                        IF @ = NoEntry THEN r.entry ELSE [@ EXCEPT !.blob = r.entry.blob]]
         /\ Settle(res, r.p, r.e, r.entry, "net", Tail(txq))
    ELSE /\ store' = store
         /\ Settle(res, r.p, r.e, FailData(Obj(r.p, r.e)), "fail", Tail(txq))

\* Variant: a failed write still yields the fetched entry.
StorePutKeepsPayload(r, ok) ==
    /\ store' = IF ok THEN [store EXCEPT ![r.key] = r.entry] ELSE store
    /\ Settle(res, r.p, r.e, r.entry, "net", Tail(txq))

\* store.put(data) of _fetchObject: onsuccess resolves with the entry
\* written; onerror rejects, and _getObject resolves with the dummy data.
StorePut(r, ok) ==
    IF ok
    THEN /\ store' = [store EXCEPT ![r.key] = r.entry]
         /\ Settle(res, r.p, r.e, r.entry, "net", Tail(txq))
    ELSE /\ store' = store
         /\ Settle(res, r.p, r.e, FailData(Obj(r.p, r.e)), "fail", Tail(txq))

\* Variant: the delete empties the store.
StoreDelAll(r, ok) ==
    /\ store' = IF ok THEN [k \in Keys |-> NoEntry] ELSE store
    /\ txq' = Tail(txq)
    /\ UNCHANGED <<res, el, lpc>>

StoreDel(r, ok) ==
    /\ store' = IF ok THEN [store EXCEPT ![r.key] = NoEntry] ELSE store
    /\ txq' = Tail(txq)
    /\ UNCHANGED <<res, el, lpc>>

\* Variant: every stored key counts as stale.
StaleAll(keys) == {k \in Keys : store[k] # NoEntry}

\* The enumerated keys that are not in the key map made of `keys`.
Stale(keys) == {k \in Keys : store[k] # NoEntry /\ k \notin keys}

\* getAllKeys() of prune.  eager: req.onsuccess issues one deleteKey per
\* stale key and there is no onerror.  lazy: #delMany of the stale keys is
\* awaited, and a failure rejects prune() and with it load().
StoreKeys(r, ok) ==
    LET stale == Stale(r.keys)
    IN  /\ store' = store
        /\ UNCHANGED <<res, el>>
        /\ IF cfg.variant = "eager"
           THEN /\ txq' = IF ok THEN Tail(txq) \o DeleteReqs(stale, r.p, r.e) ELSE Tail(txq)
                /\ lpc' = lpc
           ELSE IF ok
                THEN /\ txq' = Append(Tail(txq), Req("delMany", r.p, r.e, NoAttr, NoEntry, stale))
                     /\ lpc' = lpc
                ELSE /\ txq' = Tail(txq)
                     /\ lpc' = IF r.p = 0 THEN lpc ELSE [lpc EXCEPT ![r.p] = "rejected"]

StoreDelMany(r, ok) ==
    /\ store' = IF ok THEN [k \in Keys |-> IF k \in r.keys THEN NoEntry ELSE store[k]] ELSE store
    /\ txq' = Tail(txq)
    /\ lpc' = IF r.p = 0 THEN lpc ELSE [lpc EXCEPT ![r.p] = IF ok THEN "done" ELSE "rejected"]
    /\ UNCHANGED <<res, el>>

\* store.clear() of clear().
StoreClear(r, ok) ==
    /\ store' = IF ok THEN [k \in Keys |-> NoEntry] ELSE store
    /\ txq' = Tail(txq)
    /\ UNCHANGED <<res, el, lpc>>

\* What the end of request r means for the client's call that issued it
\* (r.p = 0 and r.e its slot): the promise of the lazy variant settles; the
\* eager variant returns no promise, and st records the request's outcome.
CallAfter(r, ok) ==
    IF r.p # 0 \/ r.e = 0 \/ r.op = "delExpired" THEN calls
    ELSE [calls EXCEPT ![r.e].st =
            IF ~ok THEN "failed"
            ELSE IF calls[r.e].op = "prune" /\ cfg.variant = "eager"
                 THEN (IF r.op = "keys" THEN "keysdone" ELSE @)
                 ELSE IF r.op = "keys" THEN "pending" ELSE "done"]

StoreStep(ok) ==
    /\ txq # <<>>
    /\ cfg.variant = "lazy" => dbp # "pending"
    /\ (cfg.variant = "lazy" /\ dbp = "err") => ~ok
    /\ LET r == Head(txq)
       IN  CASE r.op = "get" -> StoreGet(r, ok)
             [] r.op = "put" -> StorePut(r, ok)
             [] r.op = "del" -> StoreDel(r, ok)
             [] r.op = "delExpired" -> StoreDel(r, ok)
             [] r.op = "keys" -> StoreKeys(r, ok)
             [] r.op = "delMany" -> StoreDelMany(r, ok)
             [] r.op = "clear" -> StoreClear(r, ok)
    /\ calls' = CallAfter(Head(txq), ok)
    /\ ev' = Ev(Head(txq).op, Head(txq).p, Head(txq).e, IF ok THEN "ok" ELSE "err")
    /\ UNCHANGED <<cfg, page, now, db, dbp, inits, objs, builtAt>>

\* ---------------------------------------------- the maintenance calls
\* The client's calls fill the slots in order.
NextCall(c) ==
    /\ calls[c].op = "none"
    /\ \A d \in CallIds : d < c => calls[d].op # "none"

\* Variant: a call issues its request whether or not this.db is set.
IssuesAlways == TRUE

\* Whether a call gets to issue a request: the eager variant returns at
\* once without this.db; the lazy variant always goes through customStore.
Issues == cfg.variant = "lazy" \/ db

\* A call that issues request r, or returns without one.
Call(c, op, key, keys, r) ==
    /\ NextCall(c)
    /\ calls' = [calls EXCEPT ![c] = [key |-> key,
                                      st |-> IF Issues THEN "pending" ELSE "noop",
                                      op |-> op, keys |-> keys,
                                      snap |-> store, alone |-> txq = <<>>]]
    /\ txq' = IF Issues THEN Append(txq, r) ELSE txq
    /\ ev' = NoEv
    /\ UNCHANGED <<cfg, page, now, db, dbp, inits, store, objs, builtAt, res, lpc, el>>

\* deleteKey(key)
DeleteKeyCall(c, k) == Call(c, "deleteKey", k, {}, Req("del", 0, c, k, NoEntry, {}))

\* clear()
ClearCall(c) == Call(c, "clear", NoAttr, {}, Req("clear", 0, c, NoAttr, NoEntry, {}))

\* prune(keys)
PruneCall(c, L) == Call(c, "prune", NoAttr, L, Req("keys", 0, c, NoAttr, NoEntry, L))

\* The fetch of _fetchObject ends: "ok" (response ok and body read),
\* "notok" (!r.ok), "neterr" (fetch rejects), "blobfail" (r.blob() rejects).
FetchOutcomes == {"ok", "notok", "neterr", "blobfail"}

FetchDone(p, e, outcome) ==
    /\ res[p][e].pc = "fetch"
    /\ IF outcome = "ok"
       THEN /\ res' = [res EXCEPT ![p][e].pc = "put"]
            /\ txq' = Append(txq, Req("put", p, e, Obj(p, e).key,
                                      FetchData(Obj(p, e), NetBlob(e)), {}))
            /\ UNCHANGED <<el, lpc>>
       ELSE IF outcome = "blobfail" /\ cfg.variant = "eager"
            THEN \* r.blob().then(...) has no rejection handler and is not
                 \* returned to the chain that ends in .catch(reject).
                 /\ res' = [res EXCEPT ![p][e].pc = "lost"]
                 /\ UNCHANGED <<txq, el, lpc>>
            ELSE Settle(res, p, e, FailData(Obj(p, e)), "fail", txq)
    /\ ev' = Ev("fetch", p, e, outcome)
    /\ UNCHANGED <<cfg, page, now, db, dbp, inits, store, objs, builtAt, calls>>

\* The load or the error event of an element whose source was assigned:
\* both run the same handler, which applies the next descriptor of a chain.
ElementEvent(e) ==
    /\ el[e].loading
    /\ LET h  == el[e].onload
           E1 == [el EXCEPT ![e].loading = FALSE]
       IN  IF h = NoD
           THEN el' = E1
           ELSE el' = ApplyElement(E1, h[1], h[2], res[h[1]][h[2]].data.blob)
    /\ ev' = NoEv
    /\ UNCHANGED <<cfg, page, now, db, dbp, inits, store, txq, objs, builtAt, res, lpc, calls>>

Next ==
    \/ Tick
    \/ \E i \in Inits : InitCall(i)
    \/ \E i \in Inits : Open(i)
    \/ \E p \in Passes : LoadStart(p)
    \/ \E ok \in BOOLEAN : StoreStep(ok)
    \/ \E p \in Passes, e \in Els, o \in FetchOutcomes : FetchDone(p, e, o)
    \/ \E e \in Els : ElementEvent(e)

Spec == Init /\ [][Next]_vars

\* ---------------------------------------------------------- scheduling
\* The 200 ms timer of _initDB fires.
TimerFires == \E i \in Inits : inits[i].timer = "armed" /\ Open(i) /\ inits'[i].timer = "fired"

\* What the browser guarantees: an armed timer fires, a request to an open
\* database is run, a fetch ends, and an element whose source was assigned
\* gets its load or error event.  Nothing guarantees that the client makes
\* a call or that the open request of the database ever completes.
FairSpec ==
    /\ Spec
    /\ WF_vars(TimerFires)
    /\ WF_vars(\E ok \in BOOLEAN : StoreStep(ok))
    /\ WF_vars(\E p \in Passes, e \in Els, o \in FetchOutcomes : FetchDone(p, e, o))
    /\ WF_vars(\E e \in Els : ElementEvent(e))

\* ------------------------------------------- the maintenance interface
\* The client uses deleteKey, clear and prune on a store left by earlier
\* sessions: any of the keys may be stored.  No load pass runs.
ApiInit ==
    /\ cfg \in {c \in Configs : ~c.prune /\ c.expiry = 2}
    /\ page = [e \in Els |-> [tag |-> "IMG", deferred |-> FALSE,
                               dkey |-> IF e = 1 THEN "a" ELSE NoAttr,
                               dhash |-> "h1", dexp |-> NoAttr]]
    /\ \E S \in SUBSET Keys, x \in OldEntries("a") :
          store = [k \in Keys |-> IF k \in S THEN [x EXCEPT !.key = k] ELSE NoEntry]
    /\ now = 0
    /\ db = FALSE
    /\ dbp = IF cfg.variant = "lazy" THEN "pending" ELSE "none"
    /\ inits = [i \in Inits |-> [st |-> "none", req |-> "none", timer |-> "none"]]
    /\ txq = <<>>
    /\ objs = [p \in Passes |-> <<>>]
    /\ builtAt = [p \in Passes |-> 0]
    /\ res = [p \in Passes |-> [e \in Els |-> NoRes]]
    /\ lpc = [p \in Passes |-> "idle"]
    /\ el = [e \in Els |-> [src |-> NoBlob, indexed |-> FALSE, loading |-> FALSE,
                            by |-> NoD, n |-> 0, onload |-> NoD]]
    /\ ev = NoEv
    /\ calls = [c \in CallIds |-> NoCall]

ApiNext ==
    \/ \E i \in Inits : InitCall(i)
    \/ \E i \in Inits : Open(i)
    \/ \E c \in CallIds, k \in Keys : DeleteKeyCall(c, k)
    \/ \E c \in CallIds : ClearCall(c)
    \/ \E c \in CallIds, L \in SUBSET Keys : PruneCall(c, L)
    \/ \E ok \in BOOLEAN : StoreStep(ok)

ApiSpec == ApiInit /\ [][ApiNext]_vars

\* ================================================================ claims
\* The vocabulary of the claims, stated apart from the code's own tests.

\* The entry read holds a payload for the descriptor: same tag, and no
\* stored expiry or one that has not passed at time t.
ValidFor(obj, entry, t) ==
    /\ entry # NoEntry
    /\ entry.hash = obj.hash
    /\ (entry.expiry = NoExpiry \/ t <= entry.expiry)

\* The reference of element e is ordered in the variant at hand.
Ordered(e) ==
    IF cfg.variant = "eager"
    THEN page[e].tag = "SCRIPT" /\ ~page[e].deferred
    ELSE ~page[e].deferred

\* Nothing is pending any more: no store request, no fetch, no load event,
\* no load() call that has not returned.
Quiet ==
    /\ Idle
    /\ \A e \in Els : ~el[e].loading
    /\ \A p \in Passes : lpc[p] \in {"idle", "done", "rejected"}

\* The element has an effective source: an applied payload, or its own
\* locator for the browser to load.
Rendered(e) == el[e].src # NoBlob

\* C1: a lookup that reads a valid entry (same tag, expiry null or not yet
\* passed) settles the resolve with exactly that entry's payload, and no
\* fetch was issued for the descriptor.
C1_StoreHit ==
    \A p \in Passes, e \in Els :
        (/\ ev = Ev("get", p, e, "ok")
         /\ ValidFor(Obj(p, e), store[Obj(p, e).key], now))
        => /\ res[p][e].pc = "done"
           /\ res[p][e].data = store[Obj(p, e).key]
           /\ res[p][e].fetches = 0
           /\ res[p][e].url = NoAttr

C1_Witness ==
    \E p \in Passes, e \in Els :
        /\ ev = Ev("get", p, e, "ok")
        /\ ValidFor(Obj(p, e), store[Obj(p, e).key], now)
        /\ res[p][e].data.blob = "old"
        /\ el[e].src = "old"

\* C2: a lookup that reads no valid entry (absent, other tag, or elapsed
\* expiry) issues exactly one fetch, of the descriptor's locator; no resolve
\* ever fetches twice; and a successful write leaves under the descriptor's
\* key the entry made of the descriptor's key, tag and expiresAt and the
\* fetched body, which is also what the resolve yields.
C2_MissRepopulates ==
    \A p \in Passes, e \in Els :
        /\ res[p][e].fetches <= 1
        /\ (/\ ev = Ev("get", p, e, "ok")
            /\ ~ValidFor(Obj(p, e), store[Obj(p, e).key], now))
           => /\ res[p][e].pc = "fetch"
              /\ res[p][e].fetches = 1
              /\ res[p][e].url = SrcOf(e)
        /\ ev = Ev("put", p, e, "ok")
           => /\ store[Obj(p, e).key] =
                    [key |-> Obj(p, e).key, hash |-> Obj(p, e).hash,
                     expiry |-> Obj(p, e).expiry, blob |-> NetBlob(e)]
              /\ res[p][e].data = store[Obj(p, e).key]
              /\ res[p][e].pc = "done"
              /\ res[p][e].fetches = 1

C2_Witness ==
    \E p \in Passes, e \in Els :
        /\ ev = Ev("put", p, e, "ok")
        /\ Obj(p, e).key = "a"
        /\ store["a"].blob = NetBlob(e)
        /\ store["a"].expiry # NoExpiry
        /\ res[p][e].fetches = 1

\* C3: a lookup serves the stored entry if and only if the entry's tag is
\* the descriptor's tag and its expiry is null or not before the time of
\* the lookup; and whatever payload an element carries is the payload of
\* the resolve that applied it, under the descriptor's own tag.
C3_NoStaleServe ==
    /\ \A p \in Passes, e \in Els :
          ev = Ev("get", p, e, "ok")
          => /\ (res[p][e].from = "store") = ValidFor(Obj(p, e), store[Obj(p, e).key], now)
             /\ res[p][e].from = "store" => res[p][e].data = store[Obj(p, e).key]
    /\ \A e \in Els :
          el[e].n > 0
          => LET d == el[e].by
             IN  /\ el[e].src = res[d[1]][d[2]].data.blob
                 /\ res[d[1]][d[2]].data.hash = Obj(d[1], d[2]).hash
                 /\ res[d[1]][d[2]].from \in {"store", "net"}

\* A stored entry under the descriptor's tag whose expiry has passed was
\* looked up and not served.
C3_Witness ==
    \E p \in Passes, e \in Els :
        /\ ev = Ev("get", p, e, "ok")
        /\ store[Obj(p, e).key] # NoEntry
        /\ store[Obj(p, e).key].hash = Obj(p, e).hash
        /\ store[Obj(p, e).key].expiry # NoExpiry
        /\ now > store[Obj(p, e).key].expiry
        /\ res[p][e].pc = "fetch"

\* C4: when the fetch of a resolve fails (transport error or a response
\* that is not ok), the resolve is settled, with the descriptor's key, tag
\* and expiry and no payload; a resolve is never in a rejected state.
C4_TotalFailureIsAValue ==
    \A p \in Passes, e \in Els :
        /\ res[p][e].pc \in {"none", "get", "fetch", "put", "lost", "done"}
        /\ (ev.act = "fetch" /\ ev.p = p /\ ev.e = e /\ ev.how \in {"notok", "neterr"})
           => /\ res[p][e].pc = "done"
              /\ res[p][e].from = "fail"
              /\ res[p][e].data =
                    [key |-> Obj(p, e).key, hash |-> Obj(p, e).hash,
                     expiry |-> Obj(p, e).expiry, blob |-> NoBlob]

C4_Witness ==
    \E p \in Passes, e \in Els :
        /\ ev = Ev("fetch", p, e, "neterr")
        /\ res[p][e].pc = "done"
        /\ res[p][e].data.key = "a"
        /\ res[p][e].data.blob = NoBlob
        /\ el[e].src = NoBlob

\* C5: every resolve that has started is settled or still has a step that
\* will settle it: its get or put request is queued, or its fetch is in
\* flight.
C5_ResolveAlwaysSettles ==
    \A p \in Passes, e \in Els :
        \/ res[p][e].pc \in {"none", "done", "fetch"}
        \/ /\ res[p][e].pc \in {"get", "put"}
           /\ \E i \in 1..Len(txq) :
                 txq[i].op = res[p][e].pc /\ txq[i].p = p /\ txq[i].e = e

\* C6: once nothing is pending, every reference a load pass discovered has
\* an effective source: the payload, or its own locator.
C6_EveryReferenceRenders ==
    Quiet => \A p \in Passes : \A e \in SeqToSet(objs[p]) : Rendered(e)

\* C7: of two ordered references of one pass, the later one in the document
\* is never applied while the earlier one is not.
C7_OrderedInDocumentOrder ==
    \A p \in Passes : \A i, j \in SeqToSet(objs[p]) :
        (i < j /\ Ordered(i) /\ Ordered(j) /\ el[j].n > 0) => el[i].n > 0

C7_Witness ==
    \E p \in Passes :
        /\ \A e \in Els : Ordered(e) /\ el[e].by = <<p, e>>
        /\ Len(objs[p]) = NumEls

\* C8: a step that applies an ordered element other than the first of its
\* pass is the load/error event of the ordered element before it.
C8_LoadCompletionGate ==
    [][ \A j \in Els :
          el'[j].n > el[j].n
          => LET p   == el'[j].by[1]
                 out == SelectSeq(objs[p], Ordered)
             IN  \A k \in 2..Len(out) :
                    out[k] = j => (el[out[k - 1]].loading /\ ~el'[out[k - 1]].loading) ]_vars

C8_Witness ==
    \E p \in Passes, j \in Els :
        /\ j > 1 /\ Ordered(j) /\ Ordered(j - 1)
        /\ el[j].by = <<p, j>> /\ el[j].loading
        /\ el[j - 1].by = <<p, j - 1>> /\ ~el[j - 1].loading

\* C9: once nothing is pending, every ordered reference of a pass whose
\* ordered references have all resolved, and that resolved with a payload,
\* has been applied, whatever happened to the references before it.
C9_BrokenAssetDoesNotBlock ==
    Quiet =>
        \A p \in Passes :
            LET out == SelectSeq(objs[p], Ordered)
            IN  (\A k \in 1..Len(out) : res[p][out[k]].pc = "done")
                => \A k \in 1..Len(out) :
                      res[p][out[k]].data.blob # NoBlob => el[out[k]].n > 0

\* C10: the references of a pass are dispatched to resolve together, and an
\* unordered reference that resolved with a payload has been applied,
\* whatever the state of the other references.
C10_UnorderedIndependence ==
    \A p \in Passes : \A e \in SeqToSet(objs[p]) :
        /\ (\E f \in SeqToSet(objs[p]) : res[p][f].pc # "none") => res[p][e].pc # "none"
        /\ (~Ordered(e) /\ res[p][e].pc = "done" /\ res[p][e].data.blob # NoBlob)
           => el[e].n > 0

\* An unordered element carries its payload while another reference of the
\* same pass, before it in the document, is still being resolved.
C10_Witness ==
    \E p \in Passes : \E e, f \in SeqToSet(objs[p]) :
        /\ f < e /\ ~Ordered(e)
        /\ el[e].by = <<p, e>> /\ el[e].loading
        /\ res[p][f].pc \in {"get", "fetch", "put"}

\* The fetches issued for the reference of element e, over all load passes.
RECURSIVE FetchesOf(_, _)
FetchesOf(e, p) == IF p = 0 THEN 0 ELSE res[p][e].fetches + FetchesOf(e, p - 1)

\* C11: over all the load passes of an instance, no element is applied a
\* second time and no reference is fetched a second time.
C11_LoadIdempotent ==
    \A e \in Els : el[e].n <= 1 /\ FetchesOf(e, MaxPasses) <= 1

\* The call in slot c ran by itself: nothing was pending when it was made,
\* and no call was made after it.
Alone(c) ==
    /\ calls[c].alone
    /\ \A d \in CallIds : d > c => calls[d].op = "none"

\* The call in slot c has completed on an available store: it issued its
\* requests, all of them ran, and none failed.
Complete(c) ==
    /\ calls[c].st \in {"done", "keysdone"}
    /\ \A i \in 1..Len(txq) : ~(txq[i].p = 0 /\ txq[i].e = c)

\* C12: after a prune(L) that ran by itself on a store of content S has
\* completed, the store holds under every key of L what S held under it,
\* and nothing under any other key.
C12_PruneResult ==
    \A c \in CallIds :
        (calls[c].op = "prune" /\ Complete(c) /\ Alone(c))
        => \A k \in Keys :
              store[k] = IF k \in calls[c].keys THEN calls[c].snap[k] ELSE NoEntry

C12_Witness ==
    \E c \in CallIds :
        /\ calls[c].op = "prune" /\ Complete(c) /\ Alone(c)
        /\ calls[c].keys = {"a", "s1"}
        /\ calls[c].snap["a"] # NoEntry /\ store["a"] = calls[c].snap["a"]
        /\ calls[c].snap["z"] # NoEntry /\ store["z"] = NoEntry
        /\ calls[c].snap["s2"] # NoEntry /\ store["s2"] = NoEntry

\* The keys carried by the elements of the page that the scan selects.
PageKeys == {KeyOf(e) : e \in {x \in Els : page[x].tag \in Tags(cfg.variant)}}

\* C13: the prune of a load pass never removes an entry whose key is
\* carried by an element of the page.
C13_PruneKeepsPageKeys ==
    [][ \A p \in Passes :
          (ev'.p = p /\ ev'.act \in {"del", "delMany"})
          => \A k \in PageKeys : store[k] # NoEntry => store'[k] # NoEntry ]_vars

\* C14: with the prune option on, no load call rejects.
C14_PruneNeverFailsLoad ==
    cfg.prune => \A p \in Passes : lpc[p] # "rejected"

\* C15: with the prune option off, no load call rejects, whatever the
\* scan discovered and whatever failed at the store or on the network.
C15_LoadNeverRejects ==
    ~cfg.prune => \A p \in Passes : lpc[p] # "rejected"

\* C16: with skip on, the store is never opened, no request to the store
\* is ever issued, and every reference of a load pass that has returned
\* was fetched from its locator.
C16_SkipIsNetworkOnly ==
    cfg.skip =>
        /\ dbp = "none"
        /\ \A i \in Inits : inits[i].req = "none"
        /\ txq = <<>>
        /\ \A p \in Passes : \A e \in SeqToSet(objs[p]) :
              /\ res[p][e].pc # "get"
              /\ lpc[p] = "done" => (res[p][e].fetches = 1 /\ res[p][e].url = SrcOf(e))

\* The store failed to initialise: the open request ended in an error or
\* the open timed out, and no connection was obtained.
StoreFailed ==
    IF cfg.variant = "eager"
    THEN ~db /\ \E i \in Inits : inits[i].st = "failed"
    ELSE dbp = "err"

\* C17: once the store failed to initialise, every reference of a load
\* pass is resolved, its lookup fails as soon as it is served, and a fetch
\* of its locator is issued for it.
C17_UnavailableIsNetworkOnly ==
    StoreFailed =>
        \A p \in Passes : \A e \in SeqToSet(objs[p]) :
            /\ res[p][e].pc # "none"
            /\ res[p][e].pc # "get" => (res[p][e].fetches = 1 /\ res[p][e].url = SrcOf(e))

\* The open request of the database has not completed.
OpenHangs ==
    /\ cfg.variant = "lazy" => dbp = "pending"
    /\ \A i \in Inits : inits[i].req \notin {"succeeded", "errored"}

\* No init() is waiting for the store and no resolve is waiting for its
\* lookup.
NothingWaits ==
    /\ \A i \in Inits : inits[i].st # "waiting"
    /\ \A p \in Passes, e \in Els : res[p][e].pc # "get"

\* C18: if the open request never completes, then the initialisation and
\* the lookups of every load pass still come to an end.
C18_OpenTimeoutLiveness == []OpenHangs => []<>NothingWaits

\* C19: a step of a deleteKey or clear call (the call, or the end of its
\* request) changes no resolve and no element; and once such a call that
\* ran by itself on a store of content S has completed, the store is S
\* without the entry under the key (deleteKey), or empty (clear).
C19_DeleteKeyAndClear ==
    [][ \A c \in CallIds :
          (calls'[c] # calls[c] /\ calls'[c].op \in {"deleteKey", "clear"})
          => /\ res' = res
             /\ el' = el
             /\ (Complete(c) /\ Alone(c))'
                => store' = IF calls'[c].op = "clear"
                            THEN [k \in Keys |-> NoEntry]
                            ELSE [calls'[c].snap EXCEPT ![calls'[c].key] = NoEntry] ]_vars

C19_Witness ==
    \E c \in CallIds :
        /\ calls[c].op = "deleteKey" /\ calls[c].key = "a"
        /\ Complete(c) /\ Alone(c)
        /\ calls[c].snap["a"] # NoEntry /\ store["a"] = NoEntry
        /\ calls[c].snap["z"] # NoEntry /\ store["z"] = calls[c].snap["z"]

\* The expiresAt the descriptor of element e in pass p is to have: build
\* time plus the minutes of the element's override if it has one, else of
\* the default, and null only without override and with a null default.
ExpiresAt(p, e) ==
    IF page[e].dexp # NoAttr
    THEN builtAt[p] + (IF page[e].dexp = "1" THEN 1 ELSE 0) * MsPerMinute
    ELSE IF cfg.expiry = NoExpiry THEN NoExpiry
         ELSE builtAt[p] + cfg.expiry * MsPerMinute

\* C20: every descriptor of a load pass has that expiresAt, and so has the
\* entry its resolve wrote or the value it failed with.
C20_ExpiryComputation ==
    \A p \in Passes : \A e \in SeqToSet(objs[p]) :
        /\ Obj(p, e).expiry = ExpiresAt(p, e)
        /\ res[p][e].from \in {"net", "fail"} => res[p][e].data.expiry = ExpiresAt(p, e)

\* The cache key and the integrity tag the reference of element e is to
\* have: the explicit attribute when given, else the source locator.
KeyFor(e) == IF page[e].dkey # NoAttr THEN page[e].dkey ELSE SrcOf(e)
TagFor(e) == IF page[e].dhash # NoAttr THEN page[e].dhash ELSE SrcOf(e)

\* C21: every lookup and write of a reference goes to its key (explicit key,
\* else locator) and every value it yields carries its tag (explicit tag,
\* else locator); for a reference with an explicit key, a lookup that reads
\* an entry under another tag starts a fetch whatever the entry's expiry,
\* a lookup that reads an unexpired entry under the same tag serves it
\* whatever locator it was fetched from, and a successful write leaves under
\* the key the one entry with the reference's tag and the fetched body.
C21_KeyAndTagIdentity ==
    /\ \A i \in 1..Len(txq) :
          /\ txq[i].op \in {"get", "put"} => txq[i].key = KeyFor(txq[i].e)
          /\ txq[i].op = "put" => (txq[i].entry.key = KeyFor(txq[i].e)
                                   /\ txq[i].entry.hash = TagFor(txq[i].e))
    /\ \A p \in Passes, e \in Els :
          /\ res[p][e].pc = "done"
             => (res[p][e].data.key = KeyFor(e) /\ res[p][e].data.hash = TagFor(e))
          /\ (ev = Ev("get", p, e, "ok") /\ page[e].dkey # NoAttr /\ store[KeyFor(e)] # NoEntry)
             => IF store[KeyFor(e)].hash # TagFor(e)
                THEN res[p][e].pc = "fetch" /\ res[p][e].fetches = 1
                ELSE (store[KeyFor(e)].expiry = NoExpiry \/ now <= store[KeyFor(e)].expiry)
                     => /\ res[p][e].from = "store"
                        /\ res[p][e].fetches = 0
                        /\ res[p][e].data = store[KeyFor(e)]
          /\ ev = Ev("put", p, e, "ok")
             => /\ store[KeyFor(e)].key = KeyFor(e)
                /\ store[KeyFor(e)].hash = TagFor(e)
                /\ store[KeyFor(e)].blob = NetBlob(e)

\* A reference with an explicit key and no explicit tag reads an entry
\* that never expires, stored under another tag, and a fetch is started.
C21_Witness ==
    \E p \in Passes, e \in Els :
        /\ ev = Ev("get", p, e, "ok")
        /\ page[e].dkey = "a" /\ page[e].dhash = NoAttr
        /\ store["a"] # NoEntry /\ store["a"].expiry = NoExpiry
        /\ store["a"].hash # SrcOf(e)
        /\ res[p][e].pc = "fetch"

\* An entry fetched from another locator is served to a reference with
\* the same explicit key and tag.
C21_HitAcrossLocators ==
    \E p \in Passes :
        /\ ev = Ev("get", p, 2, "ok")
        /\ page[2].dkey = "a"
        /\ res[p][2].from = "store"
        /\ res[p][2].data.blob = NetBlob(1)

\* C22: the first ordered reference of a pass that has resolved with a
\* payload has been applied, whether or not the later ordered references of
\* the pass have resolved.
C22_ChainStartsOnFirstResolve ==
    \A p \in Passes :
        LET out == SelectSeq(objs[p], Ordered)
        IN  (/\ out # <<>>
             /\ res[p][out[1]].pc = "done"
             /\ res[p][out[1]].data.blob # NoBlob)
            => el[out[1]].n > 0

\* The store is open: requests to it are served.
StoreAvailable == IF cfg.variant = "eager" THEN db ELSE dbp = "ok"

\* C23: with the store available, the step that starts the resolve of one
\* reference of a pass starts the resolves of all the references the pass
\* discovered, none of them being complete; and from then on the next step
\* of every unfinished resolve can always be taken, whatever the state of
\* the other resolves and elements: its fetch can end, or its request is in
\* the store's queue and the store can serve the head of the queue.
C23_ResolutionNeverSerialized ==
    [][ StoreAvailable =>
          /\ \A p \in Passes :
                (\E e \in Els : res[p][e].pc = "none" /\ res'[p][e].pc # "none")
                => \A f \in SeqToSet(objs'[p]) : res[p][f].pc = "none" /\ res'[p][f].pc = "get"
          /\ \A p \in Passes, e \in Els :
                /\ res[p][e].pc = "fetch" => ENABLED FetchDone(p, e, "ok")
                /\ res[p][e].pc \in {"get", "put"}
                   => /\ \E i \in 1..Len(txq) :
                            txq[i].op = res[p][e].pc /\ txq[i].p = p /\ txq[i].e = e
                      /\ ENABLED StoreStep(TRUE) ]_vars

\* The resolve of the second reference of a pass has completed while the
\* first one's, started in the same step, is still waiting for its fetch.
C23_Witness ==
    \E p \in Passes :
        /\ StoreAvailable
        /\ objs[p] = <<1, 2>>
        /\ Ordered(1) /\ Ordered(2)
        /\ res[p][2].pc = "done" /\ res[p][2].from = "net"
        /\ res[p][1].pc = "fetch"

\* The positions in the store's queue of the requests `op` of resolve (p, e).
Queued(op, p, e) == {i \in 1..Len(txq) : txq[i].op = op /\ txq[i].p = p /\ txq[i].e = e}

\* The entry under the key of (p, e) has the reference's tag and a stored
\* expiry that has passed.
ExpiredFor(p, e) ==
    /\ store[KeyFor(e)] # NoEntry
    /\ store[KeyFor(e)].hash = TagFor(e)
    /\ store[KeyFor(e)].expiry # NoExpiry
    /\ now > store[KeyFor(e)].expiry

C25_WriteFailureDiscardsPayload ==
    [][ \A p \in Passes, e \in Els :
          /\ ev' = Ev("put", p, e, "err")
             => /\ res[p][e].pc = "put" /\ res[p][e].fetches = 1
                /\ res'[p][e].pc = "done"
                /\ res'[p][e].data = [key |-> KeyFor(e), hash |-> TagFor(e),
                                      expiry |-> Obj(p, e).expiry, blob |-> NoBlob]
                /\ store' = store
                /\ el'[e].src = el[e].src /\ el'[e].n = el[e].n
                /\ el'[e].indexed = el[e].indexed
          /\ (res'[p][e].pc = "done" /\ res'[p][e].data.blob = NoBlob)
             => el'[e].by # <<p, e>> ]_vars

\* The write of a fetched body has just failed: nothing is stored under the
\* key and the element has no source.
C25_Witness ==
    \E p \in Passes, e \in Els :
        /\ ev = Ev("put", p, e, "err")
        /\ StoreAvailable
        /\ res[p][e].pc = "done"
        /\ res[p][e].data.blob = NoBlob
        /\ store[KeyFor(e)] = NoEntry
        /\ el[e].src = NoBlob
        /\ Quiet

\* C26: the end of a fetch by a transport error or by a response that is not
\* ok settles the resolve without payload, changes nothing in the store and
\* issues no write; the lookup before it changed nothing in the store and,
\* when it read an entry under another tag, issued no delete and did not
\* serve it; and the one request such a resolve may leave behind, the
\* delete of an entry found expired, changes nothing but its own key.
C26_FailedFetchLeavesStore ==
    [][ \A p \in Passes, e \in Els :
          /\ (ev'.act = "fetch" /\ ev'.p = p /\ ev'.e = e /\ ev'.how \in {"notok", "neterr"})
             => /\ store' = store
                /\ res'[p][e].pc = "done" /\ res'[p][e].data.blob = NoBlob
                /\ \A i \in 1..Len(txq') :
                      (txq'[i].p = p /\ txq'[i].e = e) => txq'[i].op = "delExpired"
          /\ (ev'.act = "get" /\ ev'.p = p /\ ev'.e = e)
             => /\ store' = store
                /\ (store[KeyFor(e)] # NoEntry /\ store[KeyFor(e)].hash # TagFor(e))
                   => /\ res'[p][e].pc = "fetch"
                      /\ \A i \in 1..Len(txq') : ~(txq'[i].p = p /\ txq'[i].e = e)
          /\ (ev'.act = "delExpired" /\ ev'.p = p /\ ev'.e = e)
             => \A k \in Keys : k # KeyFor(e) => store'[k] = store[k] ]_vars

\* A fetch has just failed after the lookup rejected an entry under another
\* tag: the entry is still stored, and the resolve has no payload.
C26_Witness ==
    \E p \in Passes, e \in Els :
        /\ ev = Ev("fetch", p, e, "notok")
        /\ store[KeyFor(e)] # NoEntry
        /\ store[KeyFor(e)].hash # TagFor(e)
        /\ store[KeyFor(e)].blob = "old"
        /\ res[p][e].pc = "done" /\ res[p][e].data.blob = NoBlob
        /\ txq = <<>>

\* C27: the lookup that serves a resolve from the store leaves the store
\* as it was and yields the entry as stored, with the stored expiry; and a
\* resolve served from the store has fetched nothing and has no write and
\* no delete in the store's queue.
C27_HitLeavesStore ==
    [][ \A p \in Passes, e \in Els :
          /\ (res[p][e].from # "store" /\ res'[p][e].from = "store")
             => /\ ev' = Ev("get", p, e, "ok")
                /\ store' = store
                /\ res'[p][e].data = store[KeyFor(e)]
          /\ res'[p][e].from = "store"
             => /\ res'[p][e].fetches = 0
                /\ \A i \in 1..Len(txq') : ~(txq'[i].p = p /\ txq'[i].e = e) ]_vars

\* A hit on an entry whose stored expiry differs from the expiry newly
\* computed for the descriptor: the stored one stays.
C27_Witness ==
    \E p \in Passes, e \in Els :
        /\ ev = Ev("get", p, e, "ok")
        /\ res[p][e].from = "store"
        /\ Obj(p, e).expiry = 2 * MsPerMinute
        /\ store[KeyFor(e)].expiry = 0
        /\ store[KeyFor(e)].blob = "old"
        /\ el[e].src = "old"

PassKeys(p) == {KeyFor(e) : e \in SeqToSet(objs[p])}

\* C29: with prune on, the key enumeration of a pass is issued only once
\* the pass has built its descriptors, and with their keys; no delete the
\* prune of the pass issues names a key of the pass; and no step of that
\* prune changes the entry under a key of the pass, whatever fetches and
\* writes of the pass are still under way.
C29_PruneSparesOwnPass ==
    [][ cfg.prune =>
          \A p \in Passes :
              /\ \A i \in 1..Len(txq') :
                    (txq'[i].p = p /\ txq'[i].e = 0)
                    => /\ lpc'[p] \notin {"idle", "resolving"}
                       /\ txq'[i].op = "keys" => txq'[i].keys = PassKeys(p)'
                       /\ txq'[i].op = "del" => txq'[i].key \notin PassKeys(p)'
                       /\ txq'[i].op = "delMany" => txq'[i].keys \cap PassKeys(p)' = {}
              /\ (ev'.p = p /\ ev'.e = 0 /\ ev'.act \in {"keys", "del", "delMany"})
                 => \A k \in PassKeys(p) : store'[k] = store[k] ]_vars

\* The prune of a pass has just deleted the entry of an asset that is not
\* on the page while a reference of the same pass is still being fetched
\* or written, and the entry of another reference of the pass is stored.
C29_Witness ==
    \E p \in Passes : \E e, f \in SeqToSet(objs[p]) :
        /\ ev.p = p /\ ev.e = 0 /\ ev.act \in {"del", "delMany"} /\ ev.how = "ok"
        /\ store["z"] = NoEntry
        /\ res[p][e].pc \in {"fetch", "put"}
        /\ store[KeyFor(f)] # NoEntry

WrittenBy(p, e) ==
    [key |-> KeyFor(e), hash |-> TagFor(e), expiry |-> Obj(p, e).expiry, blob |-> NetBlob(e)]

\* C31: the store holds under every key nothing, or the entry an earlier
\* session left under that key, or the whole entry written by one resolve
\* that fetched for that key; a step that changes what is stored under a
\* key is a successful write, which stores exactly the entry of its resolve,
\* or a delete, which leaves nothing.
C31_WholeEntryOverwrite ==
    [][ \A k \in Keys :
          /\ \/ store'[k] = NoEntry
             \/ store'[k].key = k /\ store'[k].blob = "old" /\ store'[k].hash \in {"h0", "h1"}
             \/ \E p \in Passes, e \in Els :
                   /\ KeyFor(e) = k /\ res'[p][e].fetches = 1
                   /\ store'[k] = WrittenBy(p, e)'
          /\ store'[k] # store[k]
             => \/ store'[k] = NoEntry /\ ev'.act \in {"del", "delExpired", "delMany", "clear"}
                \/ /\ ev'.act = "put" /\ ev'.how = "ok" /\ ev'.p # 0 /\ ev'.e # 0
                   /\ KeyFor(ev'.e) = k
                   /\ store'[k] = WrittenBy(ev'.p, ev'.e) ]_vars

\* Two references with one key and different tags were fetched in the same
\* pass; the second one's write has just replaced the first one's entry.
C31_Witness ==
    \E p \in Passes :
        /\ KeyFor(1) = KeyFor(2) /\ TagFor(1) # TagFor(2)
        /\ res[p][1].from = "net" /\ res[p][1].data = WrittenBy(p, 1)
        /\ ev = Ev("put", p, 2, "ok")
        /\ store[KeyFor(2)] = WrittenBy(p, 2)

\* The event of the open of init call i that this step delivers, if any.
Delivers(i, event) ==
    CASE event = "timeout" -> inits[i].timer = "armed" /\ inits'[i].timer = "fired"
      [] event = "success" -> inits[i].req = "pending" /\ inits'[i].req = "succeeded"
      [] event = "error"   -> inits[i].req = "pending" /\ inits'[i].req = "errored"

\* C32: in the eager variant the first of open-success, open-error and the
\* open timeout to be delivered to an init call ends it, with the handle
\* set by it exactly when that event was the success, and no later event of
\* that call changes its result or the handle: after a timeout (or error)
\* came first the handle stays as it was whatever the open request does
\* later, and after the success came first the handle stays set when the
\* timer fires.  (A timer that finds the handle set by another init call
\* rejects nothing.)  The handle is set exactly when some init call ended
\* with the success, and while it is unset every load pass takes the path
\* without a store (no lookup, no store request).  An init call ends as
\* resolved in every case.
C32_FirstEventDecidesInit ==
    [][ cfg.variant = "eager" =>
        /\ \A i \in Inits :
              /\ inits'[i].st \in {"none", "waiting", "ok", "failed"}
              /\ inits[i].st = "waiting" =>
                    /\ Delivers(i, "success") => inits'[i].st = "ok" /\ db'
                    /\ Delivers(i, "error")   => inits'[i].st = "failed" /\ db' = db
                    /\ (Delivers(i, "timeout") /\ ~db) => inits'[i].st = "failed" /\ ~db'
                    /\ inits'[i].st # "waiting"
                       => \E event \in {"success", "error", "timeout"} : Delivers(i, event)
              /\ inits[i].st \in {"ok", "failed"} =>
                    /\ inits'[i].st = inits[i].st
                    /\ (\E event \in {"success", "error", "timeout"} : Delivers(i, event))
                       => db' = db
        /\ db' = (\E i \in Inits : inits'[i].st = "ok")
        /\ ~db' => /\ txq' = <<>>
                   /\ \A p \in Passes, e \in Els : res'[p][e].pc = "none" ]_vars

\* The timer of the init call fired first, the open request succeeded
\* afterwards, the handle is unset and a load pass has set up its elements
\* without the store.
C32_Witness ==
    /\ cfg.variant = "eager"
    /\ inits[1].timer = "fired" /\ inits[1].req = "succeeded" /\ inits[1].st = "failed"
    /\ ~db
    /\ \E p \in Passes : lpc[p] = "done" /\ objs[p] # <<>> /\ res[p][objs[p][1]].pc = "none"

\* The open of the init call succeeded first and its timer fired
\* afterwards; the handle is set and a load pass has looked up the store.
C32_SuccessFirst ==
    /\ cfg.variant = "eager"
    /\ inits[1].timer = "fired" /\ inits[1].req = "succeeded" /\ inits[1].st = "ok"
    /\ db
    /\ \E p \in Passes : objs[p] # <<>> /\ res[p][objs[p][1]].pc # "none"

\* C33: in the eager variant a prune(keys), deleteKey(key) or clear() made
\* while the handle is unset returns at once without a request: the request
\* queue, the store, the handle, the init calls, the resolves and the
\* elements are as before the call, and the call is over for good.
C33_MaintenanceWithoutStoreIsNoOp ==
    [][ \A c \in CallIds :
          /\ (cfg.variant = "eager" /\ ~db /\ calls[c].op = "none" /\ calls'[c].op # "none")
             => /\ calls'[c].st = "noop"
                /\ UNCHANGED <<txq, store, db, dbp, inits, res, el, lpc, objs, cfg, page>>
          /\ calls[c].st = "noop" => calls'[c] = calls[c] ]_vars

\* An init call timed out, a prune(keys) was then made on a store with
\* entries outside keys, and nothing happened.
C33_Witness ==
    \E c \in CallIds :
        /\ cfg.variant = "eager" /\ ~db
        /\ inits[1].st = "failed" /\ inits[1].timer = "fired"
        /\ calls[c].op = "prune" /\ calls[c].st = "noop" /\ calls[c].keys = {"a"}
        /\ store["z"] # NoEntry /\ store = calls[c].snap
        /\ txq = <<>>

\* The same for a call made with the skip option on, where init() opens
\* nothing.
C33_Skipped ==
    \E c \in CallIds :
        /\ cfg.variant = "eager" /\ cfg.skip /\ ~db
        /\ calls[c].op = "clear" /\ calls[c].st = "noop"
        /\ store["a"] # NoEntry /\ txq = <<>>

\* The load passes are sequential: a pass is started only after the load()
\* of the pass before it has returned.
Sequential ==
    \A p \in Passes : (p > 1 /\ lpc[p] # "idle") => lpc[p - 1] \in {"done", "rejected"}

\* C34: when the load passes are sequential, no element is ever assigned a
\* payload a second time, whatever the order of the resolves and of the
\* load/error events.
C34_AtMostOneApplication ==
    []Sequential => [](\A e \in Els : el[e].n <= 1)

====
